---- MODULE Spec2Model ----
(***************************************************************************)
(* Model of the Orcasound shipnoise dashboard (src/app.py,                 *)
(* src/plotutils.py): the file indexer find_files_by_date, the time-range  *)
(* filter filter_timestamps_by_time_range, the timestamp-key encoding      *)
(* "%Y-%m-%dT%H-%M-%S-%f", the generate pass of create_sidebar_layout and  *)
(* the default overlap of create_plotly_spectrogram.                       *)
(***************************************************************************)
EXTENDS Integers, Sequences, FiniteSets, TLC

\* the key encoding: two keys, their parsed date-times, the first one
\* formatted back, and the pair as sorted() orders it
VARIABLES key1, key2, dt1, dt2, text1, sorted_keys, kpc

kvars == <<key1, key2, dt1, dt2, text1, sorted_keys, kpc>>

\* the time-range filter: the argument dict of the running call and its
\* iteration order, the range, the dict being built, the loop position,
\* whether an exception left the call, which call is running, and the
\* argument and the result of the first call as they were
VARIABLES available_files, order, start_time, end_time, filtered_files, fi,
          raised, passno, input1, result1, fpc

fvars == <<available_files, order, start_time, end_time, filtered_files, fi,
           raised, passno, input1, result1, fpc>>

\* the file indexer: whether output/{location} exists, the files below it,
\* the order in which iterdir() yields its entries, the dict being built,
\* the position in the listing and the program position
VARIABLES root_exists, fs, scan_order, matching_files, si, ipc

ivars == <<root_exists, fs, scan_order, matching_files, si, ipc>>

\* the generate pass: the files of the selected timestamp, whether the wav
\* path exists, the steps whose load or render raises, the charts and the
\* messages displayed, and the program position
VARIABLES file_info, wav_exists, fails, charts, messages, gpc

gvars == <<file_info, wav_exists, fails, charts, messages, gpc>>

\* create_plotly_spectrogram's parameters nfft and noverlap, the overlap in
\* use after the default is set, and the program position
VARIABLES nfft, noverlap_arg, noverlap, opc

ovars == <<nfft, noverlap_arg, noverlap, opc>>

vars == <<kvars, fvars, ivars, gvars, ovars>>

(***************************************************************************)
(* Strings are sequences of character codes (ASCII), so that string        *)
(* comparison is the code-point comparison Python's sorted() performs.     *)
(***************************************************************************)
Chr(d) == 48 + d

IsDigit(c) == c \in 48..57

Space == 32

Dash == 45

UpperT == 84

LowerT == 116

\* the text of a tuple of decimal digits, <<0, 8>> for "08"
Txt(ds) == [i \in 1..Len(ds) |-> Chr(ds[i])]

\* Python's str < str: the first differing code point decides, a proper
\* prefix is smaller
RECURSIVE StrLess(_, _)
StrLess(a, b) ==
    IF b = <<>> THEN FALSE
    ELSE IF a = <<>> THEN TRUE
    ELSE IF Head(a) # Head(b) THEN Head(a) < Head(b)
    ELSE StrLess(Tail(a), Tail(b))

(***************************************************************************)
(* datetime.strptime(timestamp, "%Y-%m-%dT%H-%M-%S-%f")                    *)
(***************************************************************************)
\* int(text): leading blanks are skipped
RECURSIVE IntOf(_)
IntOf(txt) ==
    IF txt = <<>> THEN 0
    ELSE IF txt[Len(txt)] = Space THEN IntOf(SubSeq(txt, 1, Len(txt) - 1))
    ELSE 10 * IntOf(SubSeq(txt, 1, Len(txt) - 1)) + (txt[Len(txt)] - 48)

AllDigits(txt) == \A i \in 1..Len(txt) : IsDigit(txt[i])

\* the regular expression of each directive of the layout
MatchField(dir, txt) ==
    CASE dir = "Y" -> Len(txt) = 4 /\ AllDigits(txt)
      [] dir = "m" -> \/ Len(txt) = 2 /\ txt[1] = Chr(1) /\ txt[2] \in Chr(0)..Chr(2)
                      \/ Len(txt) = 2 /\ txt[1] = Chr(0) /\ txt[2] \in Chr(1)..Chr(9)
                      \/ Len(txt) = 1 /\ txt[1] \in Chr(1)..Chr(9)
      [] dir = "d" -> \/ Len(txt) = 2 /\ txt[1] = Chr(3) /\ txt[2] \in Chr(0)..Chr(1)
                      \/ Len(txt) = 2 /\ txt[1] \in Chr(1)..Chr(2) /\ IsDigit(txt[2])
                      \/ Len(txt) = 2 /\ txt[1] = Chr(0) /\ txt[2] \in Chr(1)..Chr(9)
                      \/ Len(txt) = 1 /\ txt[1] \in Chr(1)..Chr(9)
                      \/ Len(txt) = 2 /\ txt[1] = Space /\ txt[2] \in Chr(1)..Chr(9)
      [] dir = "H" -> \/ Len(txt) = 2 /\ txt[1] = Chr(2) /\ txt[2] \in Chr(0)..Chr(3)
                      \/ Len(txt) = 2 /\ txt[1] \in Chr(0)..Chr(1) /\ IsDigit(txt[2])
                      \/ Len(txt) = 1 /\ IsDigit(txt[1])
      [] dir = "M" -> \/ Len(txt) = 2 /\ txt[1] \in Chr(0)..Chr(5) /\ IsDigit(txt[2])
                      \/ Len(txt) = 1 /\ IsDigit(txt[1])
      [] dir = "S" -> \/ Len(txt) = 2 /\ txt[1] = Chr(6) /\ txt[2] \in Chr(0)..Chr(1)
                      \/ Len(txt) = 2 /\ txt[1] \in Chr(0)..Chr(5) /\ IsDigit(txt[2])
                      \/ Len(txt) = 1 /\ IsDigit(txt[1])
      [] dir = "f" -> Len(txt) \in 1..6 /\ AllDigits(txt)

\* the end (exclusive) of the run of digits and blanks that starts at i:
\* every literal of the layout is neither, so a directive must consume the
\* whole run for the literal after it to match
RECURSIVE RunEnd(_, _)
RunEnd(s, i) ==
    IF i > Len(s) THEN i
    ELSE IF IsDigit(s[i]) \/ s[i] = Space THEN RunEnd(s, i + 1)
    ELSE i

\* the layout: directives and the literal that follows each (compiled with
\* re.IGNORECASE, so the literal T matches either case); nothing may follow %f
Layout ==
    << [dir |-> "Y", lit |-> {Dash}],
       [dir |-> "m", lit |-> {Dash}],
       [dir |-> "d", lit |-> {UpperT, LowerT}],
       [dir |-> "H", lit |-> {Dash}],
       [dir |-> "M", lit |-> {Dash}],
       [dir |-> "S", lit |-> {Dash}],
       [dir |-> "f", lit |-> {}] >>

\* the texts of the seven directives of s, or <<>> when s does not match
RECURSIVE Fields(_, _, _)
Fields(s, i, n) ==
    IF n > Len(Layout) THEN <<>>
    ELSE LET j   == RunEnd(s, i)
             txt == SubSeq(s, i, j - 1)
             ok  == /\ MatchField(Layout[n].dir, txt)
                    /\ IF n = Len(Layout) THEN j = Len(s) + 1
                       ELSE j <= Len(s) /\ s[j] \in Layout[n].lit
         IN  IF ~ok THEN <<>>
             ELSE IF n = Len(Layout) THEN <<txt>>
             ELSE LET rest == Fields(s, j + 1, n + 1)
                  IN  IF rest = <<>> THEN <<>> ELSE <<txt>> \o rest

IsLeap(y) == (y % 4 = 0 /\ y % 100 # 0) \/ y % 400 = 0

DaysInMonth(y, m) ==
    IF m = 2 THEN (IF IsLeap(y) THEN 29 ELSE 28)
    ELSE IF m \in {4, 6, 9, 11} THEN 30 ELSE 31

RECURSIVE Pow10(_)
Pow10(n) == IF n = 0 THEN 1 ELSE 10 * Pow10(n - 1)

NoDateTime ==
    [exc |-> "ValueError", year |-> 0, month |-> 0, day |-> 0,
     hour |-> 0, minute |-> 0, second |-> 0, microsecond |-> 0]

\* strptime with the minute and second directives exchanged in the layout
strptimeSwapped(s) ==
    LET flds == Fields(s, 1, 1)
    IN  IF flds = <<>> THEN NoDateTime
        ELSE LET y  == IntOf(flds[1])
                 mo == IntOf(flds[2])
                 d  == IntOf(flds[3])
                 us == IntOf(flds[7]) * Pow10(6 - Len(flds[7]))
             IN  IF y < 1 \/ d > DaysInMonth(y, mo) \/ IntOf(flds[5]) > 59
                 THEN NoDateTime
                 ELSE [exc |-> "none", year |-> y, month |-> mo, day |-> d,
                       hour |-> IntOf(flds[4]), minute |-> IntOf(flds[6]),
                       second |-> IntOf(flds[5]), microsecond |-> us]

\* strptime that matches the fraction and drops it
strptimeNoMicro(s) ==
    LET flds == Fields(s, 1, 1)
    IN  IF flds = <<>> THEN NoDateTime
        ELSE LET y  == IntOf(flds[1])
                 mo == IntOf(flds[2])
                 d  == IntOf(flds[3])
             IN  IF y < 1 \/ d > DaysInMonth(y, mo) \/ IntOf(flds[6]) > 59
                 THEN NoDateTime
                 ELSE [exc |-> "none", year |-> y, month |-> mo, day |-> d,
                       hour |-> IntOf(flds[4]), minute |-> IntOf(flds[5]),
                       second |-> IntOf(flds[6]), microsecond |-> 0]

\* strptime: the datetime of the key, or the ValueError it raises (no match,
\* unconverted data, or a field the datetime constructor rejects)
strptime(s) ==
    LET flds == Fields(s, 1, 1)
    IN  IF flds = <<>> THEN NoDateTime
        ELSE LET y  == IntOf(flds[1])
                 mo == IntOf(flds[2])
                 d  == IntOf(flds[3])
                 us == IntOf(flds[7]) * Pow10(6 - Len(flds[7]))
             IN  IF y < 1 \/ d > DaysInMonth(y, mo) \/ IntOf(flds[6]) > 59
                 THEN NoDateTime
                 ELSE [exc |-> "none", year |-> y, month |-> mo, day |-> d,
                       hour |-> IntOf(flds[4]), minute |-> IntOf(flds[5]),
                       second |-> IntOf(flds[6]), microsecond |-> us]

\* zero-padded decimal text of n in w digits
RECURSIVE Pad(_, _)
Pad(n, w) == IF w = 0 THEN <<>> ELSE Pad(n \div 10, w - 1) \o <<Chr(n % 10)>>

\* datetime.strftime with the same layout (years of four digits)
strftime(t) ==
    Pad(t.year, 4) \o <<Dash>> \o Pad(t.month, 2) \o <<Dash>> \o Pad(t.day, 2)
    \o <<UpperT>> \o Pad(t.hour, 2) \o <<Dash>> \o Pad(t.minute, 2)
    \o <<Dash>> \o Pad(t.second, 2) \o <<Dash>> \o Pad(t.microsecond, 6)

\* datetime.time(): the time of day, the date dropped
TimeOf(t) == <<t.hour, t.minute, t.second, t.microsecond>>

\* datetime.time <= datetime.time: the comparison of the tuples
\* (hour, minute, second, microsecond)
RECURSIVE TupleLE(_, _)
TupleLE(a, b) ==
    IF a = <<>> THEN TRUE
    ELSE IF Head(a) # Head(b) THEN Head(a) < Head(b)
    ELSE TupleLE(Tail(a), Tail(b))

\* datetime < datetime
InstantOf(t) == <<t.year, t.month, t.day, t.hour, t.minute, t.second, t.microsecond>>

Earlier(t1, t2) == InstantOf(t1) # InstantOf(t2) /\ TupleLE(InstantOf(t1), InstantOf(t2))

(***************************************************************************)
(* The timestamp keys the model draws its inputs from.                     *)
(***************************************************************************)
MkKey(Y, m, d, T, H, M, S, f) ==
    Y \o <<Dash>> \o m \o <<Dash>> \o d \o <<T>> \o H \o <<Dash>> \o M
    \o <<Dash>> \o S \o <<Dash>> \o f

Y2025 == Txt(<<2, 0, 2, 5>>)

M09 == Txt(<<0, 9>>)

\* keys that parse: zero-padded and not, same and different dates
GoodKeys ==
    { MkKey(Y2025, M09, d, UpperT, H, M, S, f) :
        d \in {Txt(<<0, 1>>), Txt(<<2>>)},
        H \in {Txt(<<0, 8>>), Txt(<<9>>), Txt(<<1, 0>>)},
        M \in {Txt(<<0, 0>>), Txt(<<0, 1>>)},
        S \in {Txt(<<0, 0>>), Txt(<<3, 0>>)},
        f \in {Txt(<<5>>), Txt(<<5, 0>>), Txt(<<0, 0, 0, 0, 0, 0>>),
               Txt(<<5, 0, 0, 0, 0, 0>>)} }

\* keys on the edge of the layout: lower-case t, blank-padded day,
\* millisecond fraction, and the ways of not parsing
OddKeys ==
    LET d01 == Txt(<<0, 1>>)
        h08 == Txt(<<0, 8>>)
        z2  == Txt(<<0, 0>>)
        ms  == Txt(<<1, 2, 3>>)
    IN  { MkKey(Y2025, M09, d01, LowerT, h08, z2, z2, ms),
          MkKey(Y2025, M09, <<Space, Chr(1)>>, UpperT, h08, z2, z2, ms),
          MkKey(Y2025, M09, d01, UpperT, h08, z2, z2, ms),
          MkKey(Y2025, M09, Txt(<<3, 1>>), UpperT, h08, z2, z2, ms),
          MkKey(Y2025, M09, d01, UpperT, Txt(<<2, 4>>), z2, z2, ms),
          MkKey(Y2025, M09, d01, UpperT, h08, z2, Txt(<<6, 0>>), ms),
          MkKey(Y2025, M09, d01, UpperT, h08, z2, z2, Txt(<<1, 2, 3, 4, 5, 6, 7>>)),
          MkKey(Y2025, M09, d01, UpperT, h08, z2, z2, ms) \o <<Dash>>,
          Y2025 \o <<Dash>> \o M09 \o <<Dash>> \o d01 \o <<UpperT>>,
          Y2025 \o <<Dash>> \o M09 \o <<Dash>> \o d01 \o <<UpperT>> \o h08
                \o <<Dash>> \o z2 \o <<Dash>> \o z2 }

Keys == GoodKeys \cup OddKeys

\* sorted() of a two-element list
Sorted2(a, b) == IF StrLess(b, a) THEN <<b, a>> ELSE <<a, b>>

KeyInit ==
    /\ key1 \in Keys
    /\ key2 \in Keys
    /\ dt1 = NoDateTime
    /\ dt2 = NoDateTime
    /\ text1 = <<>>
    /\ sorted_keys = <<>>
    /\ kpc = "start"

\* the key variables while another part of the program is examined
KeyIdle ==
    /\ key1 = <<>>
    /\ key2 = <<>>
    /\ dt1 = NoDateTime
    /\ dt2 = NoDateTime
    /\ text1 = <<>>
    /\ sorted_keys = <<>>
    /\ kpc = "idle"

\* dt.strptime(timestamp, "%Y-%m-%dT%H-%M-%S-%f") on both keys
KeyParse ==
    /\ kpc = "start"
    /\ dt1' = strptime(key1)
    /\ dt2' = strptime(key2)
    /\ kpc' = "parsed"
    /\ UNCHANGED <<key1, key2, text1, sorted_keys>>
    /\ UNCHANGED <<fvars, ivars, gvars, ovars>>

\* the parsed date-time formatted back with the layout
KeyFormat ==
    /\ kpc = "parsed"
    /\ dt1.exc = "none"
    /\ text1' = strftime(dt1)
    /\ kpc' = "formatted"
    /\ UNCHANGED <<key1, key2, dt1, dt2, sorted_keys>>
    /\ UNCHANGED <<fvars, ivars, gvars, ovars>>

\* sorted(available_files.keys()) over the two keys
KeySort ==
    /\ kpc = "formatted"
    /\ dt2.exc = "none"
    /\ sorted_keys' = Sorted2(key1, key2)
    /\ kpc' = "sorted"
    /\ UNCHANGED <<key1, key2, dt1, dt2, text1>>
    /\ UNCHANGED <<fvars, ivars, gvars, ovars>>

(***************************************************************************)
(* filter_timestamps_by_time_range.  A dict is the set of its items.       *)
(***************************************************************************)
DictKeys(d) == {e.k : e \in d}

DictGet(d, key) == (CHOOSE e \in d : e.k = key).v

\* d[key] = val
DictSet(d, key, val) == {e \in d : e.k # key} \cup {[k |-> key, v |-> val]}

\* the range test with the end bound exclusive
InRangeEndExclusive(start, end, file_time) ==
    IF TupleLE(start, end)
    THEN TupleLE(start, file_time) /\ TupleLE(file_time, end) /\ file_time # end
    ELSE TupleLE(start, file_time) \/ (TupleLE(file_time, end) /\ file_time # end)

\* the range test on the time of day
InRange(start, end, file_time) ==
    IF TupleLE(start, end)
    THEN TupleLE(start, file_time) /\ TupleLE(file_time, end)
    ELSE TupleLE(start, file_time) \/ TupleLE(file_time, end)

\* a handler for the wrong exception
CaughtKeyError == {"KeyError"}

\* the exceptions the loop body's handler catches
Caught == {"ValueError"}

\* one iteration that takes the rejected entries out of the argument dict
FilterEntryPop(filtered, available, timestamp, files, start, end) ==
    LET timestamp_dt == strptime(timestamp)
        rest == {e \in available : e.k # timestamp}
    IN  IF timestamp_dt.exc # "none"
        THEN [filtered |-> filtered, available |-> rest,
              raised |-> timestamp_dt.exc \notin Caught]
        ELSE IF InRange(start, end, TimeOf(timestamp_dt))
        THEN [filtered |-> DictSet(filtered, timestamp, files),
              available |-> available, raised |-> FALSE]
        ELSE [filtered |-> filtered, available |-> rest, raised |-> FALSE]

\* one iteration of the loop: the dict built so far, the argument dict and
\* whether an exception escapes
FilterEntry(filtered, available, timestamp, files, start, end) ==
    LET timestamp_dt == strptime(timestamp)
    IN  IF timestamp_dt.exc # "none"
        THEN [filtered |-> filtered, available |-> available,
              raised |-> timestamp_dt.exc \notin Caught]
        ELSE [filtered |-> IF InRange(start, end, TimeOf(timestamp_dt))
                           THEN DictSet(filtered, timestamp, files)
                           ELSE filtered,
              available |-> available,
              raised |-> FALSE]

MaxKeys == 2

\* the keys of the filter's inputs: both range boundaries, another date,
\* short fields, lower-case t, and keys that do not parse
FilterKeys ==
    LET d01 == Txt(<<0, 1>>)
        z2  == Txt(<<0, 0>>)
        z6  == Txt(<<0, 0, 0, 0, 0, 0>>)
        ms  == Txt(<<1, 2, 3>>)
    IN  { MkKey(Y2025, M09, d01, UpperT, Txt(<<0, 8>>), z2, z2, z6),
          MkKey(Y2025, M09, Txt(<<2>>), UpperT, Txt(<<9>>), z2, z2, Txt(<<5>>)),
          MkKey(Y2025, M09, d01, UpperT, Txt(<<1, 0>>), z2, z2, z6),
          MkKey(Y2025, M09, d01, UpperT, Txt(<<1, 0>>), z2, z2, Txt(<<5>>)),
          MkKey(Y2025, M09, d01, LowerT, Txt(<<0, 8>>), z2, z2, ms),
          MkKey(Y2025, M09, Txt(<<3, 1>>), UpperT, Txt(<<0, 8>>), z2, z2, ms),
          MkKey(Y2025, M09, d01, UpperT, Txt(<<2, 4>>), z2, z2, ms),
          Y2025 \o <<Dash>> \o M09 \o <<Dash>> \o d01 \o <<UpperT>> }

\* the values of the filter's inputs: the files of a timestamp, by tag
FileInfos ==
    { {[k |-> ".wav", v |-> "wav"]},
      {[k |-> ".wav", v |-> "wav"], [k |-> "psd", v |-> "pkl/psd"]} }

Times == { <<8, 0, 0, 0>>, <<10, 0, 0, 0>>, <<23, 59, 0, 0>> }

\* the orders in which a dict with the keys ks can iterate
Orders(ks) ==
    {o \in [1..Cardinality(ks) -> ks] : \A i, j \in DOMAIN o : i # j => o[i] # o[j]}

FilterInit ==
    /\ \E ks \in SUBSET FilterKeys :
         /\ Cardinality(ks) <= MaxKeys
         /\ order \in Orders(ks)
         /\ \E val \in [ks -> FileInfos] :
              available_files = {[k |-> key, v |-> val[key]] : key \in ks}
    /\ start_time \in Times
    /\ end_time \in Times
    /\ filtered_files = {}
    /\ fi = 1
    /\ raised = FALSE
    /\ passno = 1
    /\ input1 = available_files
    /\ result1 = {}
    /\ fpc = "loop"

\* the filter variables while another part of the program is examined
FilterIdle ==
    /\ available_files = {}
    /\ order = <<>>
    /\ start_time = <<0, 0, 0, 0>>
    /\ end_time = <<23, 59, 0, 0>>
    /\ filtered_files = {}
    /\ fi = 1
    /\ raised = FALSE
    /\ passno = 1
    /\ input1 = {}
    /\ result1 = {}
    /\ fpc = "idle"

\* for timestamp, files in available_files.items(): ...
FilterStep ==
    /\ fpc = "loop"
    /\ fi <= Len(order)
    /\ order[fi] \in DictKeys(available_files)
    /\ LET r == FilterEntry(filtered_files, available_files, order[fi],
                            DictGet(available_files, order[fi]),
                            start_time, end_time)
       IN  /\ filtered_files' = r.filtered
           /\ available_files' = r.available
           /\ raised' = r.raised
           /\ fpc' = IF r.raised THEN "raised" ELSE "loop"
    /\ fi' = fi + 1
    /\ UNCHANGED <<order, start_time, end_time, passno, input1, result1>>
    /\ UNCHANGED <<kvars, ivars, gvars, ovars>>

\* return filtered_files
FilterReturn ==
    /\ fpc = "loop"
    /\ fi > Len(order)
    /\ fpc' = IF passno = 1 THEN "returned1" ELSE "returned2"
    /\ result1' = IF passno = 1 THEN filtered_files ELSE result1
    /\ UNCHANGED <<available_files, order, start_time, end_time,
                   filtered_files, fi, raised, passno, input1>>
    /\ UNCHANGED <<kvars, ivars, gvars, ovars>>

\* the filter called on its own result, with the same range
FilterAgain ==
    /\ fpc = "returned1"
    /\ available_files' = filtered_files
    /\ order' = SelectSeq(order, LAMBDA key : key \in DictKeys(filtered_files))
    /\ filtered_files' = {}
    /\ fi' = 1
    /\ passno' = 2
    /\ fpc' = "loop"
    /\ UNCHANGED <<start_time, end_time, raised, input1, result1>>
    /\ UNCHANGED <<kvars, ivars, gvars, ovars>>

FilterNext == FilterStep \/ FilterReturn \/ FilterAgain

(***************************************************************************)
(* find_files_by_date(location, selected_date) with its default            *)
(* file_extensions.  A file is [session, dir, name]; a path is the same    *)
(* record (output/{location}/{session}/{dir}/{name}).                      *)
(***************************************************************************)
Dot == 46

ExtWav == <<Dot, 119, 97, 118>>

ExtPickle == <<Dot, 112, 105, 99, 107, 108, 101>>

\* file_extensions=['.wav', '.pickle']: the tag stored and its characters
file_extensions ==
    << [tag |-> ".wav", chars |-> ExtWav],
       [tag |-> ".pickle", chars |-> ExtPickle] >>

\* pkl_dirs = ["pkl/bb", "pkl/psd"] with pkl_type = pkl_subdir.split("/")[1]
pkl_dirs ==
    << [dir |-> "pkl/bb", pkl_type |-> "bb"],
       [dir |-> "pkl/psd", pkl_type |-> "psd"] >>

\* selected_date = datetime.date(2025, 9, 1)
selected_date == [year |-> 2025, month |-> 9, day |-> 1]

\* selected_date.strftime("%Y-%m-%d")
date_str ==
    Pad(selected_date.year, 4) \o <<Dash>> \o Pad(selected_date.month, 2)
    \o <<Dash>> \o Pad(selected_date.day, 2)

\* glob of f"{date_str}T*{ext}": the prefix, anything, the suffix
GlobMatch(name, ext) ==
    LET prefix == date_str \o <<UpperT>>
    IN  /\ Len(name) >= Len(prefix) + Len(ext)
        /\ SubSeq(name, 1, Len(prefix)) = prefix
        /\ SubSeq(name, Len(name) - Len(ext) + 1, Len(name)) = ext

\* the position of the last dot of name, 0 when it has none
RECURSIVE LastDot(_, _)
LastDot(name, i) ==
    IF i = 0 THEN 0 ELSE IF name[i] = Dot THEN i ELSE LastDot(name, i - 1)

\* Path.stem: the name without its last suffix
Stem(name) ==
    LET i == LastDot(name, Len(name))
    IN  IF 1 < i /\ i < Len(name) THEN SubSeq(name, 1, i - 1) ELSE name

\* the inner dict started afresh for every file
AddFileReset(matching, timestamp, tag, path) ==
    DictSet(matching, timestamp, DictSet({}, tag, path))

\* if timestamp not in matching_files: matching_files[timestamp] = {}
\* matching_files[timestamp][tag] = str(file_path)
AddFile(matching, timestamp, tag, path) ==
    LET inner == IF timestamp \in DictKeys(matching)
                 THEN DictGet(matching, timestamp) ELSE {}
    IN  DictSet(matching, timestamp, DictSet(inner, tag, path))

\* for file_path in files: ... over the files a glob returned
RECURSIVE AddFiles(_, _, _)
AddFiles(matching, files, tag) ==
    IF files = {} THEN matching
    ELSE LET f == CHOOSE x \in files : TRUE
         IN  AddFiles(AddFile(matching, Stem(f.name), tag, f),
                      files \ {f}, tag)

\* list(dir.glob(pattern)) in one directory of a session
Glob(files, session, dir, ext) ==
    {f \in files : f.session = session /\ f.dir = dir /\ GlobMatch(f.name, ext)}

\* the wav subdirectory: for ext in file_extensions
RECURSIVE ScanWav(_, _, _, _)
ScanWav(matching, files, session, n) ==
    IF n > Len(file_extensions) THEN matching
    ELSE ScanWav(AddFiles(matching,
                          Glob(files, session, "wav", file_extensions[n].chars),
                          file_extensions[n].tag),
                 files, session, n + 1)

\* the pkl subdirectories: for pkl_subdir in pkl_dirs
RECURSIVE ScanPkl(_, _, _, _)
ScanPkl(matching, files, session, n) ==
    IF n > Len(pkl_dirs) THEN matching
    ELSE ScanPkl(AddFiles(matching,
                          Glob(files, session, pkl_dirs[n].dir, ExtPickle),
                          pkl_dirs[n].pkl_type),
                 files, session, n + 1)

\* the body of the loop over the subdirectories, for one subdirectory
ScanSubdir(matching, files, session) ==
    ScanPkl(ScanWav(matching, files, session, 1), files, session, 1)

MaxSessions == 2

MaxFiles == 3

\* the entries of output/{location}: session directories, and 0, a plain file
Sessions == 1..MaxSessions

Entries == Sessions \cup {0}

is_dir(entry) == entry \in Sessions

\* file names: two timestamps of the selected date and one of another day
StemA == MkKey(Y2025, M09, Txt(<<0, 1>>), UpperT, Txt(<<0, 8>>), Txt(<<0, 0>>),
               Txt(<<0, 0>>), Txt(<<1, 2, 3>>))

StemB == MkKey(Y2025, M09, Txt(<<0, 1>>), UpperT, Txt(<<0, 9>>), Txt(<<0, 0>>),
               Txt(<<0, 0>>), Txt(<<1, 2, 3>>))

StemOld == MkKey(Y2025, Txt(<<0, 8>>), Txt(<<3, 1>>), UpperT, Txt(<<0, 8>>),
                 Txt(<<0, 0>>), Txt(<<0, 0>>), Txt(<<1, 2, 3>>))

\* the files a session directory may hold
FileChoices ==
    { [session |-> s, dir |-> "wav", name |-> n] :
        s \in Sessions,
        n \in {StemA \o ExtWav, StemB \o ExtWav, StemOld \o ExtWav,
               StemA \o ExtPickle} }
    \cup
    { [session |-> s, dir |-> d, name |-> n] :
        s \in Sessions, d \in {"pkl/bb", "pkl/psd"},
        n \in {StemA \o ExtPickle} }

IndexInit ==
    /\ root_exists \in BOOLEAN
    /\ fs \in {files \in SUBSET FileChoices : Cardinality(files) <= MaxFiles}
    /\ (~root_exists => fs = {})
    /\ scan_order \in IF root_exists THEN Orders(Entries) ELSE {<<>>}
    /\ matching_files = {}
    /\ si = 1
    /\ ipc = "start"

\* the index variables while another part of the program is examined
IndexIdle ==
    /\ root_exists = FALSE
    /\ fs = {}
    /\ scan_order = <<>>
    /\ matching_files = {}
    /\ si = 1
    /\ ipc = "idle"

\* if not data_path.exists(): return matching_files
IndexNoRoot ==
    /\ ipc = "start"
    /\ ~root_exists
    /\ ipc' = "returned"
    /\ UNCHANGED <<root_exists, fs, scan_order, matching_files, si>>
    /\ UNCHANGED <<kvars, fvars, gvars, ovars>>

\* the loop is entered
IndexEnter ==
    /\ ipc = "start"
    /\ root_exists
    /\ ipc' = "scan"
    /\ UNCHANGED <<root_exists, fs, scan_order, matching_files, si>>
    /\ UNCHANGED <<kvars, fvars, gvars, ovars>>

\* for subdir in data_path.iterdir(): if subdir.is_dir(): ...
ScanEntry ==
    /\ ipc = "scan"
    /\ si <= Len(scan_order)
    /\ matching_files' = IF is_dir(scan_order[si])
                         THEN ScanSubdir(matching_files, fs, scan_order[si])
                         ELSE matching_files
    /\ si' = si + 1
    /\ UNCHANGED <<root_exists, fs, scan_order, ipc>>
    /\ UNCHANGED <<kvars, fvars, gvars, ovars>>

\* return matching_files
IndexReturn ==
    /\ ipc = "scan"
    /\ si > Len(scan_order)
    /\ ipc' = "returned"
    /\ UNCHANGED <<root_exists, fs, scan_order, matching_files, si>>
    /\ UNCHANGED <<kvars, fvars, gvars, ovars>>

IndexNext == IndexNoRoot \/ IndexEnter \/ ScanEntry \/ IndexReturn

(***************************************************************************)
(* The generate pass of create_sidebar_layout, entered when the button is  *)
(* pressed with a timestamp selected.                                      *)
(***************************************************************************)
Tags == {".wav", "psd", "bb"}

\* the index entries a selected timestamp can have
FileInfoChoices ==
    { {[k |-> t, v |-> t] : t \in ts} : ts \in SUBSET Tags }

GenInit ==
    /\ file_info \in FileInfoChoices
    /\ wav_exists \in BOOLEAN
    /\ fails \in SUBSET {"wav", "psd", "bb"}
    /\ charts = {}
    /\ messages = {}
    /\ gpc = "button"

\* the generate variables while another part of the program is examined
GenIdle ==
    /\ file_info = {}
    /\ wav_exists = FALSE
    /\ fails = {}
    /\ charts = {}
    /\ messages = {}
    /\ gpc = "idle"

has_wav == ".wav" \in DictKeys(file_info)

has_psd == "psd" \in DictKeys(file_info)

has_bb == "bb" \in DictKeys(file_info)

\* if process_button and selected_timestamp and available_files: try: ...
GenStart ==
    /\ gpc = "button"
    /\ gpc' = "has_wav"
    /\ UNCHANGED <<file_info, wav_exists, fails, charts, messages>>
    /\ UNCHANGED <<kvars, fvars, ivars, ovars>>

\* if not has_wav: st.error(...); return
GenNoWav ==
    /\ gpc = "has_wav"
    /\ ~has_wav
    /\ messages' = messages \cup {"error: No WAV file found for the selected timestamp"}
    /\ gpc' = "finally"
    /\ UNCHANGED <<file_info, wav_exists, fails, charts>>
    /\ UNCHANGED <<kvars, fvars, ivars, ovars>>

\* wav_file_path = file_info['.wav']
GenWavPath ==
    /\ gpc = "has_wav"
    /\ has_wav
    /\ gpc' = "exists"
    /\ UNCHANGED <<file_info, wav_exists, fails, charts, messages>>
    /\ UNCHANGED <<kvars, fvars, ivars, ovars>>

\* if not Path(wav_file_path).exists(): st.error(...); return
GenWavMissing ==
    /\ gpc = "exists"
    /\ ~wav_exists
    /\ messages' = messages \cup {"error: WAV file not found"}
    /\ gpc' = "finally"
    /\ UNCHANGED <<file_info, wav_exists, fails, charts>>
    /\ UNCHANGED <<kvars, fvars, ivars, ovars>>

\* fig_spectrogram = create_plotly_spectrogram(...); st.plotly_chart(...);
\* an exception goes to the outer handler: st.error, st.exception
GenSpectrogram ==
    /\ gpc = "exists"
    /\ wav_exists
    /\ IF "wav" \in fails
       THEN /\ messages' = messages \cup {"error: Error processing data"}
            /\ charts' = charts
            /\ gpc' = "finally"
       ELSE /\ charts' = charts \cup {"wav"}
            /\ messages' = messages
            /\ gpc' = "psd"
    /\ UNCHANGED <<file_info, wav_exists, fails>>
    /\ UNCHANGED <<kvars, fvars, ivars, ovars>>

\* if has_psd: try: read_pickle, create_plotly_psd, plotly_chart
\* except Exception: st.warning   else: st.warning
GenPsd ==
    /\ gpc = "psd"
    /\ IF has_psd
       THEN IF "psd" \in fails
            THEN /\ messages' = messages \cup {"warning: Could not load PSD data"}
                 /\ charts' = charts
            ELSE /\ charts' = charts \cup {"psd"}
                 /\ messages' = messages
       ELSE /\ messages' = messages \cup {"warning: No processed PSD data available"}
            /\ charts' = charts
    /\ gpc' = "bb"
    /\ UNCHANGED <<file_info, wav_exists, fails>>
    /\ UNCHANGED <<kvars, fvars, ivars, ovars>>

\* if has_bb: try: read_pickle, create_plotly_bb, plotly_chart
\* except Exception: st.warning   else: st.warning
GenBb ==
    /\ gpc = "bb"
    /\ IF has_bb
       THEN IF "bb" \in fails
            THEN /\ messages' = messages \cup {"warning: Could not load broadband RMS data"}
                 /\ charts' = charts
            ELSE /\ charts' = charts \cup {"bb"}
                 /\ messages' = messages
       ELSE /\ messages' = messages \cup {"warning: No broadband RMS data available"}
            /\ charts' = charts
    /\ gpc' = "success"
    /\ UNCHANGED <<file_info, wav_exists, fails>>
    /\ UNCHANGED <<kvars, fvars, ivars, ovars>>

\* progress_bar.progress(100); status_text.text("All graphs generated ...")
GenSuccess ==
    /\ gpc = "success"
    /\ messages' = messages \cup {"status: All graphs generated successfully"}
    /\ gpc' = "finally"
    /\ UNCHANGED <<file_info, wav_exists, fails, charts>>
    /\ UNCHANGED <<kvars, fvars, ivars, ovars>>

\* finally: progress_bar.empty(); status_text.empty()
GenFinally ==
    /\ gpc = "finally"
    /\ gpc' = "done"
    /\ UNCHANGED <<file_info, wav_exists, fails, charts, messages>>
    /\ UNCHANGED <<kvars, fvars, ivars, ovars>>

GenNext ==
    \/ GenStart
    \/ GenNoWav
    \/ GenWavPath
    \/ GenWavMissing
    \/ GenSpectrogram
    \/ GenPsd
    \/ GenBb
    \/ GenSuccess
    \/ GenFinally

(***************************************************************************)
(* create_plotly_spectrogram's default overlap.                            *)
(***************************************************************************)
MaxNfft == 300

\* the threshold compared strictly
DefaultOverlapStrict(n) == IF n < 128 THEN n \div 2 ELSE 128

\* noverlap = nfft // 2 if nfft <= 128 else 128
DefaultOverlap(n) == IF n <= 128 THEN n \div 2 ELSE 128

OverlapInit ==
    /\ nfft \in 1..MaxNfft
    /\ noverlap_arg \in {[given |-> FALSE, value |-> 0]}
                        \cup {[given |-> TRUE, value |-> v] : v \in {0, 64}}
    /\ noverlap = 0
    /\ opc = "call"

\* the overlap variables while another part of the program is examined
OverlapIdle ==
    /\ nfft = 256
    /\ noverlap_arg = [given |-> FALSE, value |-> 0]
    /\ noverlap = 0
    /\ opc = "idle"

\* if noverlap is None: noverlap = ...
OverlapDefault ==
    /\ opc = "call"
    /\ ~noverlap_arg.given
    /\ noverlap' = DefaultOverlap(nfft)
    /\ opc' = "set"
    /\ UNCHANGED <<nfft, noverlap_arg>>
    /\ UNCHANGED <<kvars, fvars, ivars, gvars>>

\* an explicit overlap is used as given
OverlapGiven ==
    /\ opc = "call"
    /\ noverlap_arg.given
    /\ noverlap' = noverlap_arg.value
    /\ opc' = "set"
    /\ UNCHANGED <<nfft, noverlap_arg>>
    /\ UNCHANGED <<kvars, fvars, ivars, gvars>>

OverlapNext == OverlapDefault \/ OverlapGiven

KeyNext == KeyParse \/ KeyFormat \/ KeySort

(***************************************************************************)
(* The specifications: one per part of the program, the others at rest.    *)
(***************************************************************************)
InitKeys == KeyInit /\ FilterIdle /\ IndexIdle /\ GenIdle /\ OverlapIdle

SpecKeys == InitKeys /\ [][KeyNext]_vars

InitFilter == FilterInit /\ KeyIdle /\ IndexIdle /\ GenIdle /\ OverlapIdle

SpecFilter == InitFilter /\ [][FilterNext]_vars

InitIndex == IndexInit /\ KeyIdle /\ FilterIdle /\ GenIdle /\ OverlapIdle

SpecIndex == InitIndex /\ [][IndexNext]_vars

InitGen == GenInit /\ KeyIdle /\ FilterIdle /\ IndexIdle /\ OverlapIdle

SpecGen == InitGen /\ [][GenNext]_vars

InitOverlap == OverlapInit /\ KeyIdle /\ FilterIdle /\ IndexIdle /\ GenIdle

SpecOverlap == InitOverlap /\ [][OverlapNext]_vars

(***************************************************************************)
(* Properties.                                                             *)
(***************************************************************************)
\* a time of day as its second of the day and its microsecond
SecondOfDay(t) == (t[1] * 60 + t[2]) * 60 + t[3]

AtMost(a, b) ==
    \/ SecondOfDay(a) < SecondOfDay(b)
    \/ SecondOfDay(a) = SecondOfDay(b) /\ a[4] <= b[4]

Parses(key) == strptime(key).exc = "none"

\* the inclusion rule of the range (start, end) for the key's time of day
Included(key, start, end) ==
    LET t == TimeOf(strptime(key))
    IN  IF AtMost(start, end)
        THEN AtMost(start, t) /\ AtMost(t, end)
        ELSE AtMost(start, t) \/ AtMost(t, end)

\* C1: the filter returns exactly the input entries (same key, same value)
\* whose key parses and whose time of day, the date ignored, is in the range:
\* start <= t <= end for a same-day range, t >= start or t <= end for an
\* overnight one, both bounds inclusive
C1_FilterContract ==
    fpc = "returned1" =>
        filtered_files =
            {e \in input1 : Parses(e.k) /\ Included(e.k, start_time, end_time)}

\* an overnight range returned an entry exactly at its end bound and left
\* out a parseable entry of another time and date
C1_Witness ==
    /\ fpc = "returned1"
    /\ ~AtMost(start_time, end_time)
    /\ \E e \in filtered_files : TimeOf(strptime(e.k)) = end_time
    /\ \E e \in input1 \ filtered_files : Parses(e.k)

\* C4: a key that does not parse is never in the result, no exception leaves
\* the call, and the parseable keys of the same input are still filtered
C4_UnparseableDropped ==
    /\ ~raised
    /\ fpc # "raised"
    /\ \A e \in filtered_files : Parses(e.k)
    /\ fpc = "returned1" =>
          \A e \in input1 :
              Parses(e.k) /\ Included(e.k, start_time, end_time)
                  => e \in filtered_files

\* the call returned on an input that mixes a key that does not parse with
\* one that does and is kept
C4_Witness ==
    /\ fpc = "returned1"
    /\ \E e \in input1 : ~Parses(e.k)
    /\ \E e \in filtered_files : Parses(e.k)

\* C8: filtering the result again with the same range returns the same
\* result, and neither call changes its argument
C8_Idempotent ==
    /\ fpc = "returned1" => available_files = input1
    /\ fpc = "returned2" =>
          /\ filtered_files = result1
          /\ available_files = result1

\* the second call returned, the first having kept some entries and dropped
\* others
C8_Witness ==
    /\ fpc = "returned2"
    /\ result1 # {}
    /\ result1 # input1

\* a key in the form strftime produces: every field zero-padded to its full
\* width, a six-digit fraction, an upper-case T
Canonical(key) ==
    LET flds == Fields(key, 1, 1)
    IN  /\ flds # <<>>
        /\ \A i \in 1..7 : Len(flds[i]) = <<4, 2, 2, 2, 2, 2, 6>>[i]
        /\ \A i \in 1..7 : AllDigits(flds[i])
        /\ key[11] = UpperT

C7_Original ==
    kpc = "formatted" => text1 = key1

\* C7 amended: an accepted key in canonical form (year 1000 or later)
\* formats back to itself, and two different canonical keys denote
\* different instants; any other accepted key formats to the canonical key
\* of the same instant
C7_CanonicalRoundTrip ==
    /\ kpc \in {"formatted", "sorted"} /\ Canonical(key1) => text1 = key1
    /\ kpc \in {"formatted", "sorted"} =>
          /\ Canonical(text1)
          /\ InstantOf(strptime(text1)) = InstantOf(dt1)
    /\ kpc = "sorted" /\ Canonical(key1) /\ Canonical(key2) /\ key1 # key2
          => InstantOf(dt1) # InstantOf(dt2)

\* a canonical key with a fraction that is not zero was parsed and formatted
C7_Witness ==
    /\ kpc = "formatted"
    /\ Canonical(key1)
    /\ dt1.microsecond # 0

\* the tag of the slot a file of the tree fills, "" for a file no glob of
\* the indexer matches
SlotTag(f) ==
    IF f.dir = "wav" /\ GlobMatch(f.name, ExtWav) THEN ".wav"
    ELSE IF f.dir = "wav" /\ GlobMatch(f.name, ExtPickle) THEN ".pickle"
    ELSE IF f.dir = "pkl/bb" /\ GlobMatch(f.name, ExtPickle) THEN "bb"
    ELSE IF f.dir = "pkl/psd" /\ GlobMatch(f.name, ExtPickle) THEN "psd"
    ELSE ""

\* the place of an entry in the listing
ScanPos(entry) == CHOOSE i \in DOMAIN scan_order : scan_order[i] = entry

\* the files that compete for the slot (key, tag)
SlotFiles(key, tag) ==
    {f \in fs : SlotTag(f) = tag /\ Stem(f.name) = key}

\* C5 as stated: every inner key of the index is one of the three file-kind
\* tags, and only files with the raw-audio extension add an entry from a
\* wav directory
C5_ThreeTags ==
    ipc = "returned" =>
        \A e \in matching_files :
            /\ DictKeys(e.v) \subseteq {".wav", "psd", "bb"}
            /\ \A slot \in e.v :
                  slot.v.dir = "wav" => GlobMatch(slot.v.name, ExtWav)

\* C10: every (key, tag) slot of the index holds the path from the session
\* scanned last among those that have a file for it, whatever the scan
\* order, and every slot some session has a file for is present, so the
\* other tags of the key are kept
C10_LastScannedWins ==
    ipc = "returned" =>
        \A key \in {Stem(f.name) : f \in fs} \cup DictKeys(matching_files) :
            \A tag \in {".wav", ".pickle", "bb", "psd"} :
                LET competing == SlotFiles(key, tag)
                    present == /\ key \in DictKeys(matching_files)
                               /\ tag \in DictKeys(DictGet(matching_files, key))
                IN  /\ present <=> competing # {}
                    /\ present =>
                          LET path == DictGet(DictGet(matching_files, key), tag)
                          IN  /\ path \in competing
                              /\ \A f \in competing :
                                    ScanPos(f.session) <= ScanPos(path.session)
                    /\ key \in DictKeys(matching_files) =>
                          DictKeys(DictGet(matching_files, key))
                              \subseteq {".wav", ".pickle", "bb", "psd"}

\* two sessions hold the same key under the same tag, and the one scanned
\* first also holds it under another tag
C10_Witness ==
    /\ ipc = "returned"
    /\ \E f1, f2, f3 \in fs :
         /\ SlotTag(f1) = ".wav" /\ SlotTag(f2) = ".wav"
         /\ f1.name = f2.name
         /\ ScanPos(f1.session) < ScanPos(f2.session)
         /\ f3.session = f1.session
         /\ SlotTag(f3) = "bb"
         /\ Stem(f3.name) = Stem(f1.name)

\* C2 as stated: with no '.wav' entry the pass reports the no-WAV error and
\* still loads and renders the PSD and broadband artifacts that are present
C2_NoWavLeavesOthers ==
    gpc = "done" /\ ~has_wav =>
        /\ "error: No WAV file found for the selected timestamp" \in messages
        /\ has_psd /\ "psd" \notin fails => "psd" \in charts
        /\ has_bb /\ "bb" \notin fails => "bb" \in charts

\* the warning a failing step gives
FailureMessage(step) ==
    CASE step = "wav" -> "error: Error processing data"
      [] step = "psd" -> "warning: Could not load PSD data"
      [] step = "bb" -> "warning: Could not load broadband RMS data"

\* whether the step's artifact is there
Present(step) ==
    CASE step = "wav" -> has_wav /\ wav_exists
      [] step = "psd" -> has_psd
      [] step = "bb" -> has_bb

\* C3 as stated: in a pass that reaches the visualizations, every step whose
\* artifact is present is attempted whatever the other steps do: it is
\* displayed if it succeeds and gives its own warning if it fails
C3_StepsIndependent ==
    gpc = "done" /\ Present("wav") =>
        \A step \in {"wav", "psd", "bb"} :
            Present(step) =>
                IF step \in fails
                THEN FailureMessage(step) \in messages
                ELSE step \in charts

Min(a, b) == IF a <= b THEN a ELSE b

\* C9 as stated: the default overlap is min(nfft // 2, 128) for every
\* positive nfft and is strictly smaller than nfft
C9_Original ==
    opc = "set" /\ ~noverlap_arg.given =>
        /\ noverlap = Min(nfft \div 2, 128)
        /\ noverlap < nfft

\* C9 amended: the default overlap is min(nfft // 2, 128) for nfft up to
\* 128 and from 256 on, it is 128 for nfft from 129 to 255, and it is
\* always strictly smaller than nfft
C9_DefaultOverlap ==
    opc = "set" /\ ~noverlap_arg.given =>
        /\ nfft \notin 129..255 => noverlap = Min(nfft \div 2, 128)
        /\ nfft \in 129..255 => noverlap = 128
        /\ noverlap < nfft

\* the default was set for a window between 129 and 255 samples
C9_Witness ==
    /\ opc = "set"
    /\ ~noverlap_arg.given
    /\ nfft \in 129..255

====
